---- MODULE Spec2Model ----
(***************************************************************************)
(* Model of hackrf_read.c: a main flow that opens an output file, brings   *)
(* up a HackRF device, starts asynchronous reception, polls until a signal *)
(* or the device stops it, and tears everything down; a receive callback   *)
(* run by the library's transfer thread; and a signal handler.            *)
(*                                                                         *)
(* libhackrf and stdio are the environment.  Every library call that the   *)
(* program checks may succeed or fail.  A call that reports failure has    *)
(* had no effect.  The transfer thread may invoke rx_callback, one         *)
(* invocation at a time, from a successful hackrf_start_rx until a         *)
(* successful hackrf_stop_rx or hackrf_close, which wait for the           *)
(* invocation in progress.                                                 *)
(***************************************************************************)
EXTENDS Integers, Sequences, FiniteSets, TLC

\* ---------------------------------------------------------------- bounds
MaxCalls == 2        \* rx_callback invocations in one run
MaxSignals == 2      \* signal deliveries in one run
BufLen == 2          \* capacity of a transfer buffer, in bytes
Bytes == {0, 1}      \* byte values a buffer holds

\* ------------------------------------------------------------- constants
HACKRF_SUCCESS == 0
HACKRF_TRUE == 1
EXIT_FAILURE == 1
ErrorCodes == {-5, -1000}                 \* hackrf_error values of a failed call
Results == {HACKRF_SUCCESS} \cup ErrorCodes
SignalSet == <<"SIGINT", "SIGILL", "SIGFPE", "SIGSEGV", "SIGTERM", "SIGABRT">>
\* the buffers the device fills: the two alternating byte patterns of length BufLen
Buffers == {[i \in 1..BufLen |-> (i + k) % 2] : k \in Bytes}
Transfers == [buffer : Buffers, valid_length : 0..BufLen]

StartupSteps == <<"fopen", "hackrf_init", "hackrf_open_by_serial", "hackrf_set_freq",
                  "hackrf_set_sample_rate", "hackrf_start_rx">>
TeardownSteps == <<"hackrf_stop_rx", "hackrf_close", "hackrf_exit", "fclose">>

VARIABLES
  pc,          \* position of main
  result,      \* main's local `result`
  exitStatus,  \* <<>> while running, <<status>> once main has returned
  fp,          \* the FILE pointer: "NULL" or "file"
  fpOpen,      \* whether the stream fp points to is open
  device,      \* the device pointer: "NULL" or "dev"
  do_exit,     \* the volatile exit flag
  handlers,    \* signals whose handler is sigint_callback_handler
  libInit,     \* libhackrf initialised
  devOpen,     \* the device handle is open
  threadOn,    \* the transfer thread may invoke rx_callback
  streaming,   \* what hackrf_is_streaming reports
  out,         \* content of output_samples.raw
  errlog,      \* lines written to stderr
  cbpc,        \* position of rx_callback: "idle" or "write"
  transfer,    \* the hackrf_transfer of the invocation in progress
  cbRet,       \* return values of the completed invocations, in order
  sigpc,       \* position of sigint_callback_handler: "idle" or "assign"
  badAccess,   \* rx_callback used the stream after fclose
  calls,       \* history: operations main has attempted, in order
  failedStep,  \* history: the startup step that failed, or "none"
  delivered,   \* history: valid bytes of the invocations begun with do_exit false, in order
  begun,       \* history: number of rx_callback invocations begun
  drained,     \* history: number of those begun with do_exit already true
  sigCount,    \* history: number of signals delivered
  lateSleeps,  \* history: sleeps begun with the loop's exit condition already met
  lateWrites,  \* history: fwrite calls made with do_exit already true
  flagAtStart  \* history: do_exit was true when hackrf_start_rx was called

progVars == <<pc, result, exitStatus, fp, fpOpen, device, do_exit, handlers, libInit,
              devOpen, threadOn, streaming, out, errlog, cbpc, transfer, cbRet, sigpc,
              badAccess>>
histVars == <<calls, failedStep, delivered, begun, drained, sigCount, lateSleeps,
              lateWrites, flagAtStart>>
vars == <<progVars, histVars>>

NoTransfer == [buffer |-> [i \in 1..BufLen |-> 0], valid_length |-> 0]

Init ==
  /\ pc = "fopen"
  /\ result = 0
  /\ exitStatus = <<>>
  /\ fp = "NULL"
  /\ fpOpen = FALSE
  /\ device = "NULL"
  /\ do_exit = FALSE
  /\ handlers = {}
  /\ libInit = FALSE
  /\ devOpen = FALSE
  /\ threadOn = FALSE
  /\ streaming = FALSE
  /\ out = <<>>
  /\ errlog = <<>>
  /\ cbpc = "idle"
  /\ transfer = NoTransfer
  /\ cbRet = <<>>
  /\ sigpc = "idle"
  /\ badAccess = FALSE
  /\ calls = <<>>
  /\ failedStep = "none"
  /\ delivered = <<>>
  /\ begun = 0
  /\ drained = 0
  /\ sigCount = 0
  /\ lateSleeps = 0
  /\ lateWrites = 0
  /\ flagAtStart = FALSE

\* ------------------------------------------------------------ pure parts
\* a | b on two's-complement integers
RECURSIVE BitOr(_, _)
BitOr(a, b) ==
  IF a = 0 THEN b
  ELSE IF b = 0 THEN a
  ELSE IF a = -1 \/ b = -1 THEN -1
  ELSE (IF a % 2 = 1 \/ b % 2 = 1 THEN 1 ELSE 0) + 2 * BitOr(a \div 2, b \div 2)

\* the bytes of a buffer that a transfer marks valid
ValidBytes(t) == [i \in 1..t.valid_length |-> t.buffer[i]]

\* fwrite(buffer, valid_length, 1, fp) on an open stream with content c
FwriteAll(t, c) == c \o [i \in 1..BufLen |-> t.buffer[i]]
Fwrite(t, c) == c \o ValidBytes(t)

\* rx_callback's first test: return at once?
CbReturnsEarlyNever(flag) == FALSE
CbReturnsEarly(flag) == flag

\* the position main moves to after a startup call returned r
StartupNextAlways(r, next) == next
StartupNext(r, next) == IF r /= HACKRF_SUCCESS THEN "done" ELSE next

\* the position main moves to after a teardown call returned r
TeardownNextAbort(r, next) == IF r /= HACKRF_SUCCESS THEN "return" ELSE next
TeardownNextSkipsClose(r, next) == IF next = "hackrf_close" THEN "hackrf_exit" ELSE next
TeardownNextRetry(r, next) ==
  IF r /= HACKRF_SUCCESS /\ next = "hackrf_exit" THEN "hackrf_close" ELSE next
TeardownNext(r, next) == next

\* the two operands of the liveness loop's condition
StreamingTest(s) == s = HACKRF_TRUE
ExitTestIgnored(flag) == TRUE
ExitTest(flag) == flag = FALSE

\* the tests `fp != NULL` and `device != NULL`
SinkSetAlways(f) == TRUE
SinkSet(f) == f /= "NULL"
DeviceSetNever(d) == FALSE
DeviceSet(d) == d /= "NULL"

\* main's last return statement
FinalStatusResult(r) == r
FinalStatus(r) == 0

\* hackrf_is_streaming(device)
IsStreaming == IF streaming THEN HACKRF_TRUE ELSE 0

Terminated == pc = "done"
\* ------------------------------------------------------------------ main
\* what every checked startup call does with its result r
StartupCall(step, r, next, msg) ==
  /\ calls' = Append(calls, step)
  /\ failedStep' = IF r /= HACKRF_SUCCESS THEN step ELSE failedStep
  /\ pc' = StartupNext(r, next)
  /\ IF pc' = "done"
       THEN /\ errlog' = Append(errlog, msg)
            /\ exitStatus' = <<EXIT_FAILURE>>
       ELSE UNCHANGED <<errlog, exitStatus>>

\* fp = fopen(OUTPUT_FILE, "w")
Fopen ==
  /\ pc = "fopen"
  /\ calls' = Append(calls, "fopen")
  /\ \E ok \in BOOLEAN :
       IF ok
         THEN /\ fp' = "file" /\ fpOpen' = TRUE /\ out' = <<>>
              /\ pc' = "hackrf_init"
              /\ UNCHANGED <<errlog, exitStatus, failedStep>>
         ELSE /\ errlog' = Append(errlog, "Error opening output file")
              /\ exitStatus' = <<EXIT_FAILURE>>
              /\ failedStep' = "fopen"
              /\ pc' = "done"
              /\ UNCHANGED <<fp, fpOpen, out>>
  /\ UNCHANGED <<result, device, do_exit, handlers, libInit, devOpen, threadOn, streaming,
                 cbpc, transfer, cbRet, sigpc, badAccess, delivered, begun, drained, sigCount,
                 lateSleeps,
                 lateWrites, flagAtStart>>

\* result = hackrf_init()
HackrfInit ==
  /\ pc = "hackrf_init"
  /\ \E r \in Results :
       /\ result' = r
       /\ libInit' = (r = HACKRF_SUCCESS)
       /\ StartupCall("hackrf_init", r, "hackrf_open_by_serial", "hackrf_init() failed")
  /\ UNCHANGED <<fp, fpOpen, device, do_exit, handlers, devOpen, threadOn, streaming, out,
                 cbpc, transfer, cbRet, sigpc, badAccess, delivered, begun, drained, sigCount,
                 lateSleeps,
                 lateWrites, flagAtStart>>

\* result = hackrf_open_by_serial(serial_number, &device)
HackrfOpen ==
  /\ pc = "hackrf_open_by_serial"
  /\ \E r \in Results :
       /\ result' = r
       /\ devOpen' = (r = HACKRF_SUCCESS)
       /\ device' = IF r = HACKRF_SUCCESS THEN "dev" ELSE device
       /\ StartupCall("hackrf_open_by_serial", r, "hackrf_set_freq", "hackrf_open() failed")
  /\ UNCHANGED <<fp, fpOpen, do_exit, handlers, libInit, threadOn, streaming, out,
                 cbpc, transfer, cbRet, sigpc, badAccess, delivered, begun, drained, sigCount,
                 lateSleeps,
                 lateWrites, flagAtStart>>

\* result = hackrf_set_freq(device, freq_hz)
SetFreq ==
  /\ pc = "hackrf_set_freq"
  /\ \E r \in Results :
       /\ result' = r
       /\ StartupCall("hackrf_set_freq", r, "hackrf_set_sample_rate",
                      "hackrf_set_freq() failed")
  /\ UNCHANGED <<fp, fpOpen, device, do_exit, handlers, libInit, devOpen, threadOn,
                 streaming, out, cbpc, transfer, cbRet, sigpc, badAccess, delivered, begun, drained,
                 sigCount, lateSleeps,
                 lateWrites, flagAtStart>>

\* result = hackrf_set_sample_rate(device, DEFAULT_SAMPLE_RATE_HZ)
SetSampleRate ==
  /\ pc = "hackrf_set_sample_rate"
  /\ \E r \in Results :
       /\ result' = r
       /\ StartupCall("hackrf_set_sample_rate", r, "signal",
                      "hackrf_sample_rate_set() failed")
  /\ UNCHANGED <<fp, fpOpen, device, do_exit, handlers, libInit, devOpen, threadOn,
                 streaming, out, cbpc, transfer, cbRet, sigpc, badAccess, delivered, begun, drained,
                 sigCount, lateSleeps,
                 lateWrites, flagAtStart>>

\* signal(SIGxxx, &sigint_callback_handler), one call per step, in source order
InstallHandler ==
  /\ pc = "signal"
  /\ LET n == Cardinality(handlers) + 1 IN
       /\ handlers' = handlers \cup {SignalSet[n]}
       /\ pc' = IF n = Len(SignalSet) THEN "hackrf_start_rx" ELSE "signal"
  /\ calls' = IF handlers = {} THEN Append(calls, "signal") ELSE calls
  /\ UNCHANGED <<result, exitStatus, fp, fpOpen, device, do_exit, libInit, devOpen,
                 threadOn, streaming, out, errlog, cbpc, transfer, cbRet, sigpc, badAccess,
                 failedStep, delivered, begun, drained, sigCount, lateSleeps,
                 lateWrites, flagAtStart>>

\* result |= hackrf_start_rx(device, rx_callback, NULL), then "Stop with Ctrl-C"
StartRx ==
  /\ pc = "hackrf_start_rx"
  /\ flagAtStart' = do_exit
  /\ \E r \in Results :
       /\ result' = BitOr(result, r)
       /\ threadOn' = (r = HACKRF_SUCCESS)
       /\ streaming' = (r = HACKRF_SUCCESS)
       /\ calls' = Append(calls, "hackrf_start_rx")
       /\ failedStep' = IF result' /= HACKRF_SUCCESS THEN "hackrf_start_rx" ELSE failedStep
       /\ pc' = StartupNext(result', "is_streaming")
       /\ IF pc' = "done"
            THEN /\ errlog' = Append(errlog, "hackrf_start_rx() failed")
                 /\ exitStatus' = <<EXIT_FAILURE>>
            ELSE /\ errlog' = Append(errlog, "Stop with Ctrl-C")
                 /\ UNCHANGED exitStatus
  /\ UNCHANGED <<fp, fpOpen, device, do_exit, handlers, libInit, devOpen, out, cbpc,
                 transfer, cbRet, sigpc, badAccess, delivered, begun, drained, sigCount, lateSleeps,
                 lateWrites>>

\* while: the left operand, hackrf_is_streaming(device) == HACKRF_TRUE
LoopStreamingTest ==
  /\ pc = "is_streaming"
  /\ pc' = IF StreamingTest(IsStreaming) THEN "do_exit" ELSE "teardown"
  /\ UNCHANGED <<result, exitStatus, fp, fpOpen, device, do_exit, handlers, libInit,
                 devOpen, threadOn, streaming, out, errlog, cbpc, transfer, cbRet, sigpc,
                 badAccess, histVars>>

\* while: the right operand, do_exit == false
LoopExitTest ==
  /\ pc = "do_exit"
  /\ pc' = IF ExitTest(do_exit) THEN "sleep" ELSE "teardown"
  /\ UNCHANGED <<result, exitStatus, fp, fpOpen, device, do_exit, handlers, libInit,
                 devOpen, threadOn, streaming, out, errlog, cbpc, transfer, cbRet, sigpc,
                 badAccess, histVars>>

\* the loop's exit condition, as the state has it
ExitConditionMet == do_exit \/ ~streaming

\* sleep(1)
SleepClearsFlag ==
  /\ pc = "sleep"
  /\ pc' = "is_streaming"
  /\ do_exit' = FALSE
  /\ lateSleeps' = IF ExitConditionMet /\ lateSleeps < 2 THEN lateSleeps + 1 ELSE lateSleeps
  /\ UNCHANGED <<result, exitStatus, fp, fpOpen, device, handlers, libInit,
                 devOpen, threadOn, streaming, out, errlog, cbpc, transfer, cbRet, sigpc,
                 badAccess, calls, failedStep, delivered, begun, drained, sigCount,
                 lateWrites, flagAtStart>>
Sleep ==
  /\ pc = "sleep"
  /\ pc' = "is_streaming"
  /\ lateSleeps' = IF ExitConditionMet /\ lateSleeps < 2 THEN lateSleeps + 1 ELSE lateSleeps
  /\ UNCHANGED <<result, exitStatus, fp, fpOpen, device, do_exit, handlers, libInit,
                 devOpen, threadOn, streaming, out, errlog, cbpc, transfer, cbRet, sigpc,
                 badAccess, calls, failedStep, delivered, begun, drained, sigCount,
                 lateWrites, flagAtStart>>

\* if (device != NULL)
TeardownGuard ==
  /\ pc = "teardown"
  /\ pc' = IF DeviceSet(device) THEN "hackrf_stop_rx" ELSE "return"
  /\ UNCHANGED <<result, exitStatus, fp, fpOpen, device, do_exit, handlers, libInit,
                 devOpen, threadOn, streaming, out, errlog, cbpc, transfer, cbRet, sigpc,
                 badAccess, histVars>>

\* result = hackrf_stop_rx(device); a successful stop has joined the transfer thread
StopRx ==
  /\ pc = "hackrf_stop_rx"
  /\ \E r \in Results :
       /\ r = HACKRF_SUCCESS => cbpc = "idle"
       /\ result' = r
       /\ threadOn' = IF r = HACKRF_SUCCESS THEN FALSE ELSE threadOn
       /\ streaming' = IF r = HACKRF_SUCCESS THEN FALSE ELSE streaming
       /\ errlog' = IF r /= HACKRF_SUCCESS THEN Append(errlog, "hackrf_stop_rx() failed")
                    ELSE errlog
       /\ pc' = TeardownNext(r, "hackrf_close")
  /\ calls' = Append(calls, "hackrf_stop_rx")
  /\ UNCHANGED <<exitStatus, fp, fpOpen, device, do_exit, handlers, libInit, devOpen, out,
                 cbpc, transfer, cbRet, sigpc, badAccess, failedStep, delivered, begun, drained,
                 sigCount, lateSleeps,
                 lateWrites, flagAtStart>>

\* result = hackrf_close(device); a successful close has released the device
HackrfClose ==
  /\ pc = "hackrf_close"
  /\ \E r \in Results :
       /\ r = HACKRF_SUCCESS => cbpc = "idle"
       /\ result' = r
       /\ devOpen' = IF r = HACKRF_SUCCESS THEN FALSE ELSE devOpen
       /\ threadOn' = IF r = HACKRF_SUCCESS THEN FALSE ELSE threadOn
       /\ streaming' = IF r = HACKRF_SUCCESS THEN FALSE ELSE streaming
       /\ errlog' = IF r /= HACKRF_SUCCESS THEN Append(errlog, "hackrf_close() failed")
                    ELSE errlog
       /\ pc' = TeardownNext(r, "hackrf_exit")
  /\ calls' = Append(calls, "hackrf_close")
  /\ UNCHANGED <<exitStatus, fp, fpOpen, device, do_exit, handlers, libInit, out, cbpc,
                 transfer, cbRet, sigpc, badAccess, failedStep, delivered, begun, drained, sigCount,
                 lateSleeps,
                 lateWrites, flagAtStart>>

\* hackrf_exit()
HackrfExit ==
  /\ pc = "hackrf_exit"
  /\ libInit' = FALSE
  /\ pc' = "fclose"
  /\ calls' = Append(calls, "hackrf_exit")
  /\ UNCHANGED <<result, exitStatus, fp, fpOpen, device, do_exit, handlers, devOpen,
                 threadOn, streaming, out, errlog, cbpc, transfer, cbRet, sigpc, badAccess,
                 failedStep, delivered, begun, drained, sigCount, lateSleeps,
                 lateWrites, flagAtStart>>

\* if (fp != NULL) fclose(fp)
Fclose ==
  /\ pc = "fclose"
  /\ IF SinkSet(fp)
       THEN fpOpen' = FALSE /\ calls' = Append(calls, "fclose")
       ELSE UNCHANGED <<fpOpen, calls>>
  /\ pc' = "return"
  /\ UNCHANGED <<result, exitStatus, fp, device, do_exit, handlers, libInit, devOpen,
                 threadOn, streaming, out, errlog, cbpc, transfer, cbRet, sigpc, badAccess,
                 failedStep, delivered, begun, drained, sigCount, lateSleeps,
                 lateWrites, flagAtStart>>

\* return 0
Return ==
  /\ pc = "return"
  /\ exitStatus' = <<FinalStatus(result)>>
  /\ pc' = "done"
  /\ UNCHANGED <<result, fp, fpOpen, device, do_exit, handlers, libInit, devOpen, threadOn,
                 streaming, out, errlog, cbpc, transfer, cbRet, sigpc, badAccess, histVars>>

Main ==
  \/ Fopen \/ HackrfInit \/ HackrfOpen \/ SetFreq \/ SetSampleRate \/ InstallHandler
  \/ StartRx \/ LoopStreamingTest \/ LoopExitTest \/ Sleep \/ TeardownGuard
  \/ StopRx \/ HackrfClose \/ HackrfExit \/ Fclose \/ Return

\* ----------------------------------------------------------- rx_callback
\* entry and `if (do_exit) return 0;`
CbBegin ==
  /\ threadOn /\ ~Terminated
  /\ cbpc = "idle"
  /\ begun < MaxCalls
  /\ begun' = begun + 1
  /\ drained' = IF do_exit THEN drained + 1 ELSE drained
  /\ \E t \in Transfers :
       /\ delivered' = IF do_exit THEN delivered ELSE delivered \o ValidBytes(t)
       /\ IF CbReturnsEarly(do_exit)
            THEN /\ cbRet' = Append(cbRet, 0)
                 /\ UNCHANGED <<cbpc, transfer>>
            ELSE /\ cbpc' = "write"
                 /\ transfer' = t
                 /\ UNCHANGED cbRet
  /\ UNCHANGED <<pc, result, exitStatus, fp, fpOpen, device, do_exit, handlers, libInit,
                 devOpen, threadOn, streaming, out, errlog, sigpc, badAccess, calls,
                 failedStep, sigCount, lateSleeps,
                 lateWrites, flagAtStart>>

\* `if (fp != NULL) fwrite(...)` and `return 0`; fwrite on a closed stream is undefined
CbWrite ==
  /\ cbpc = "write" /\ ~Terminated
  /\ IF ~SinkSet(fp)
       THEN UNCHANGED <<out, badAccess>>
       ELSE IF fpOpen
         THEN out' = Fwrite(transfer, out) /\ UNCHANGED badAccess
         ELSE badAccess' = TRUE /\ out' \in {out, Fwrite(transfer, out)}
  /\ lateWrites' = IF SinkSet(fp) /\ do_exit THEN lateWrites + 1 ELSE lateWrites
  /\ cbRet' = Append(cbRet, 0)
  /\ cbpc' = "idle"
  /\ transfer' = NoTransfer
  /\ UNCHANGED <<pc, result, exitStatus, fp, fpOpen, device, do_exit, handlers, libInit,
                 devOpen, threadOn, streaming, errlog, sigpc, calls, failedStep, delivered,
                 begun, drained, sigCount, lateSleeps,
                 flagAtStart>>

\* ----------------------------------------------- sigint_callback_handler
\* a signal whose handler is installed arrives: fprintf(stderr, "Caught signal %d\n")
SigBegin ==
  /\ ~Terminated
  /\ sigpc = "idle"
  /\ sigCount < MaxSignals
  /\ \E signum \in handlers :
       errlog' = Append(errlog, "Caught signal")
  /\ sigpc' = "assign"
  /\ sigCount' = sigCount + 1
  /\ UNCHANGED <<pc, result, exitStatus, fp, fpOpen, device, do_exit, handlers, libInit,
                 devOpen, threadOn, streaming, out, cbpc, transfer, cbRet, badAccess,
                 calls, failedStep, delivered, begun, drained, lateSleeps,
                 lateWrites, flagAtStart>>

\* do_exit = true
SigAssign ==
  /\ ~Terminated
  /\ sigpc = "assign"
  /\ do_exit' = TRUE
  /\ sigpc' = "idle"
  /\ UNCHANGED <<pc, result, exitStatus, fp, fpOpen, device, handlers, libInit, devOpen,
                 threadOn, streaming, out, errlog, cbpc, transfer, cbRet, badAccess,
                 histVars>>

\* ------------------------------------------------------------ the device
\* the device stops streaming on its own; transfers already completed may still
\* reach rx_callback until the transfer thread is joined
DeviceStops ==
  /\ threadOn /\ streaming /\ ~Terminated
  /\ streaming' = FALSE
  /\ UNCHANGED <<pc, result, exitStatus, fp, fpOpen, device, do_exit, handlers, libInit,
                 devOpen, threadOn, out, errlog, cbpc, transfer, cbRet, sigpc, badAccess,
                 histVars>>

Next == Main \/ CbBegin \/ CbWrite \/ SigBegin \/ SigAssign \/ DeviceStops

Spec == Init /\ [][Next]_vars

\* rx_callback and the signal handler on their own: the transfer thread is running,
\* the exit flag is set or not, and the sink handle is set (and open) or unset
CbInit ==
  /\ pc = "is_streaming"
  /\ result = HACKRF_SUCCESS
  /\ exitStatus = <<>>
  /\ fp \in {"NULL", "file"}
  /\ fpOpen = (fp = "file")
  /\ device = "dev"
  /\ do_exit \in BOOLEAN
  /\ handlers = {SignalSet[i] : i \in 1..Len(SignalSet)}
  /\ libInit = TRUE
  /\ devOpen = TRUE
  /\ threadOn = TRUE
  /\ streaming = TRUE
  /\ out = <<>>
  /\ errlog = <<>>
  /\ cbpc = "idle"
  /\ transfer = NoTransfer
  /\ cbRet = <<>>
  /\ sigpc = "idle"
  /\ badAccess = FALSE
  /\ calls = <<>>
  /\ failedStep = "none"
  /\ delivered = <<>>
  /\ begun = 0
  /\ drained = 0
  /\ sigCount = 0
  /\ lateSleeps = 0
  /\ lateWrites = 0
  /\ flagAtStart = FALSE

CbNext == CbBegin \/ CbWrite \/ SigBegin \/ SigAssign

CbSpec == CbInit /\ [][CbNext]_vars

\* the main flow is a thread the scheduler keeps running
FairSpec == Spec /\ WF_vars(Main)
\* ---------------------------------------------------------------- claims
InCalls(op) == \E i \in 1..Len(calls) : calls[i] = op
InLog(msg) == \E i \in 1..Len(errlog) : errlog[i] = msg
InLoop == pc \in {"is_streaming", "do_exit", "sleep"}
\* the program state a signal handler has no business with
NotTheFlag == <<pc, result, exitStatus, fp, fpOpen, device, handlers, libInit, devOpen,
                threadOn, streaming, out, errlog, cbpc, transfer, cbRet, badAccess>>

\* C1: while do_exit is false and the sink is open, once every invocation begun
\* has returned, the sink holds exactly the valid bytes of the invocations, in
\* invocation order, and every invocation has returned a status.
C1_SinkIsConcatenation ==
  (~do_exit /\ fpOpen /\ cbpc = "idle") => (out = delivered /\ Len(cbRet) = begun)
C1_Witness ==
  /\ ~do_exit /\ fpOpen /\ cbpc = "idle"
  /\ begun = 2 /\ Len(out) = 3 /\ out = delivered

\* C2: an rx_callback invocation that begins with do_exit true returns at once
\* with status 0 and leaves the sink as it was.
C2_NoWriteAfterExit ==
  [][(do_exit /\ begun' = begun + 1)
       => (out' = out /\ cbpc' = "idle" /\ cbRet' = Append(cbRet, 0))]_vars
C2_Witness ==
  /\ drained = 2 /\ Len(cbRet) = 2 /\ out = <<>> /\ threadOn

\* C3: when a startup step has failed, main has returned a non-zero status, the
\* failed step is the last operation attempted, the transfer thread was never
\* started, the loop was never entered and rx_callback was never invoked.
C3_StartupFailureAborts ==
  failedStep /= "none" =>
    /\ Terminated
    /\ exitStatus /= <<>> /\ exitStatus[1] /= 0
    /\ calls[Len(calls)] = failedStep
    /\ ~threadOn /\ ~streaming
    /\ begun = 0 /\ lateSleeps = 0 /\ ~InLog("Stop with Ctrl-C")
    /\ \A i \in 1..Len(TeardownSteps) : ~InCalls(TeardownSteps[i])
C3_Witness ==
  /\ Terminated /\ failedStep = "hackrf_start_rx"
  /\ exitStatus = <<EXIT_FAILURE>> /\ do_exit

\* C4 (as claimed): when main has returned after a startup failure, the sink,
\* the subsystem and the device handle acquired before it have been released.
C4_Claim ==
  (Terminated /\ failedStep /= "none") => (~fpOpen /\ ~libInit /\ ~devOpen)

\* C5: a run that got past startup has attempted all four teardown steps by the
\* time main returns, whatever hackrf_stop_rx and hackrf_close reported.
C5_TeardownCompletes ==
  (Terminated /\ failedStep = "none") =>
    \A i \in 1..Len(TeardownSteps) : InCalls(TeardownSteps[i])
C5_Witness ==
  /\ Terminated
  /\ InLog("hackrf_stop_rx() failed") /\ InLog("hackrf_close() failed")
  /\ InCalls("hackrf_exit") /\ InCalls("fclose")

\* C6: in the liveness loop, once do_exit is true or the device reports that it
\* is not streaming, main reaches the teardown block, and it begins at most one
\* more sleep on the way.
C6_LoopExits ==
  /\ (InLoop /\ ExitConditionMet) ~> (pc = "teardown")
  /\ [](lateSleeps <= 1)
C6_Witness ==
  pc = "teardown" /\ lateSleeps = 1 /\ do_exit /\ streaming

\* C7 (as claimed): while the sink is closed the transfer thread is stopped and
\* no invocation is in progress, and rx_callback never used a closed sink.
C7_Claim ==
  /\ (fp /= "NULL" /\ ~fpOpen) => (~threadOn /\ cbpc = "idle")
  /\ ~badAccess

\* C8 (as claimed): the handler's assignment leaves do_exit true, and a
\* delivery that finds do_exit already true changes nothing of the program.
C8_Claim ==
  [][/\ (sigpc = "assign" /\ sigpc' = "idle") => do_exit'
     /\ (do_exit /\ sigpc' /= sigpc) => UNCHANGED <<do_exit, NotTheFlag>>]_vars

\* C9: main returns 0 whenever hackrf_start_rx succeeded, whatever ended the
\* loop and whatever teardown reported, and non-zero exactly when a startup
\* step failed.
C9_ExitStatus ==
  Terminated =>
    /\ exitStatus /= <<>>
    /\ (InCalls("hackrf_start_rx") /\ failedStep = "none") => exitStatus = <<0>>
    /\ (exitStatus[1] /= 0) <=> (failedStep /= "none")
C9_Witness ==
  /\ Terminated /\ exitStatus = <<0>> /\ ~do_exit
  /\ InLog("hackrf_close() failed") /\ result /= HACKRF_SUCCESS

\* C10 (as claimed): a step of the signal handler changes do_exit and nothing
\* else: not the sink, not the device, not the standard streams.
C10_Claim ==
  [][(sigpc' /= sigpc) => UNCHANGED NotTheFlag]_vars
\* the teardown operations main has attempted, in order
TeardownCalls ==
  SelectSeq(calls, LAMBDA c : \E i \in 1..Len(TeardownSteps) : c = TeardownSteps[i])
Count(op) == Cardinality({i \in 1..Len(calls) : calls[i] = op})
AllTeardownDone == \A i \in 1..Len(TeardownSteps) : InCalls(TeardownSteps[i])
StartOrder == <<"fopen", "hackrf_init", "hackrf_open_by_serial", "hackrf_set_freq",
                "hackrf_set_sample_rate", "signal", "hackrf_start_rx">>
\* main's positions in program order; the three positions of the loop share one
PcOrder == <<"fopen", "hackrf_init", "hackrf_open_by_serial", "hackrf_set_freq",
             "hackrf_set_sample_rate", "signal", "hackrf_start_rx", "loop", "teardown",
             "hackrf_stop_rx", "hackrf_close", "hackrf_exit", "fclose", "return", "done">>
Rank(p) ==
  LET q == IF p \in {"is_streaming", "do_exit", "sleep"} THEN "loop" ELSE p
  IN CHOOSE i \in 1..Len(PcOrder) : PcOrder[i] = q

\* C11: the teardown operations attempted so far are always an initial part of
\* stop streaming, close device, shut down subsystem, close sink, in that
\* order; none is attempted unless the device handle was opened; and
\* hackrf_close is called at most once.
C11_TeardownOrder ==
  /\ Len(TeardownCalls) <= Len(TeardownSteps)
  /\ TeardownCalls = SubSeq(TeardownSteps, 1, Len(TeardownCalls))
  /\ TeardownCalls /= <<>> => (device /= "NULL" /\ failedStep = "none")
  /\ Count("hackrf_close") <= 1
C11_Witness ==
  /\ Terminated /\ TeardownCalls = TeardownSteps
  /\ InLog("hackrf_stop_rx() failed") /\ ~devOpen

\* C12: when hackrf_start_rx is called, the sink was opened, the subsystem
\* initialised, the device opened, frequency and sample rate set and all six
\* handlers installed, in that order; and whenever the transfer thread is
\* running or rx_callback is in progress, fp and device are both set.
C12_StartupOrder ==
  /\ InCalls("hackrf_start_rx") =>
       /\ SubSeq(calls, 1, Len(StartOrder)) = StartOrder
       /\ handlers = {SignalSet[i] : i \in 1..Len(SignalSet)}
  /\ (threadOn \/ cbpc /= "idle") => (fp /= "NULL" /\ device /= "NULL")
C12_Witness ==
  /\ threadOn /\ cbpc = "write" /\ fpOpen /\ devOpen /\ libInit
  /\ calls = StartOrder

\* C13: main attempts no operation twice, and its position only moves forward
\* through startup, the loop, teardown and return: nothing is retried and no
\* phase is entered again.
C13_Linear ==
  /\ [](\A i, j \in 1..Len(calls) : calls[i] = calls[j] => i = j)
  /\ [][pc' /= pc => (Rank(pc') > Rank(pc) \/ (InLoop /\ InLoop'))]_vars
C13_Witness ==
  /\ Terminated /\ Len(calls) = Len(StartOrder) + Len(TeardownSteps)
  /\ InLog("hackrf_stop_rx() failed") /\ InLog("hackrf_close() failed")
  /\ lateSleeps = 1

\* C14: every rx_callback invocation returns 0 and leaves the transfer thread
\* running, whether do_exit is set or not and whether fp is set or not; with fp
\* unset the write step changes nothing but the invocation's own position.
C14_CallbackContract ==
  /\ [](/\ \A i \in 1..Len(cbRet) : cbRet[i] = 0
        /\ cbpc = "idle" => Len(cbRet) = begun)
  /\ [][(begun' /= begun \/ cbpc' /= cbpc) => UNCHANGED <<threadOn, streaming, pc>>]_vars
  /\ [][(cbpc = "write" /\ cbpc' = "idle" /\ fp = "NULL")
          => UNCHANGED <<out, badAccess, do_exit, fp, fpOpen, device, errlog, result,
                         exitStatus, libInit, devOpen, handlers>>]_vars
C14_Witness ==
  /\ fp = "NULL" /\ drained = 0 /\ Len(cbRet) = 2 /\ out = <<>> /\ threadOn

\* C15: a write step of rx_callback on the open sink appends the buffer whether
\* or not do_exit has become true since the invocation began, and at most one
\* fwrite call is made with do_exit true.
C15_OneLateWrite ==
  /\ [](lateWrites <= 1)
  /\ [][(cbpc = "write" /\ cbpc' = "idle" /\ fpOpen) => out' = out \o ValidBytes(transfer)]_vars
C15_Witness ==
  /\ lateWrites = 1 /\ drained = 1 /\ Len(out) = BufLen /\ cbpc = "idle" /\ fpOpen

\* C16: do_exit is false as long as no handler is installed, it changes only in
\* the handler's assignment, and it never goes back to false.
C16_FlagMonotone ==
  /\ [](handlers = {} => ~do_exit)
  /\ [][do_exit' /= do_exit => (sigpc = "assign" /\ sigpc' = "idle" /\ do_exit')]_vars
C16_Witness ==
  /\ Terminated /\ do_exit /\ failedStep = "none"
  /\ drained >= 1 /\ lateSleeps = 1

\* C17: when do_exit was already true at the call of hackrf_start_rx and the
\* call succeeded, main never sleeps, nothing is ever written to the sink, and
\* main goes on to return 0 after all four teardown steps.
C17_EarlySignal ==
  /\ [](flagAtStart /\ failedStep = "none" =>
          /\ InCalls("hackrf_start_rx")
          /\ pc /= "sleep" /\ lateSleeps = 0
          /\ out = <<>> /\ lateWrites = 0
          /\ Terminated => (exitStatus = <<0>> /\ TeardownCalls = TeardownSteps))
  /\ (flagAtStart /\ failedStep = "none") ~> Terminated
C17_Witness ==
  /\ flagAtStart /\ Terminated /\ exitStatus = <<0>>
  /\ begun = 2 /\ out = <<>> /\ TeardownCalls = TeardownSteps

\* C18: at the teardown guard device is never NULL; a run that got past
\* hackrf_start_rx has called hackrf_close, shut the subsystem down and closed
\* the sink when main returns; a run whose startup failed attempts no teardown
\* step.
C18_GuardAlwaysTrue ==
  /\ pc = "teardown" => device /= "NULL"
  /\ (Terminated /\ failedStep = "none") =>
       (AllTeardownDone /\ ~libInit /\ ~fpOpen)
  /\ failedStep /= "none" => TeardownCalls = <<>>
C18_Witness ==
  /\ Terminated /\ failedStep = "none" /\ ~do_exit
  /\ ~libInit /\ ~fpOpen /\ devOpen
====
